---------------------------- MODULE Spec2Model ----------------------------
(***************************************************************************)
(* mood-service (index.ts): a Fastify server with three routes over a      *)
(* Cosmos DB container ("tweets") and one Redis key ("tweets").            *)
(*                                                                         *)
(*   GET  /sentiment         cache first, else the store; writes the cache *)
(*   POST /sentiment         upserts the tweets of the body one at a time  *)
(*   GET  /last-known-tweet  the greatest id among the stored tweets       *)
(*                                                                         *)
(* Every handler is async.  One action of the model is one I/O completion  *)
(* (a Redis or Cosmos call taking effect) together with the synchronous    *)
(* continuation of the handler up to its next await or its reply.  Any     *)
(* I/O call may fail (throw); an exception that leaves a handler is        *)
(* answered by Fastify with status 500.                                    *)
(*                                                                         *)
(* Strings that are compared (ids) are sequences of digits; the text held  *)
(* in Redis is a record [kind, items] (see JSONstringify / JSONparse).     *)
(***************************************************************************)
EXTENDS Integers, Sequences, FiniteSets, TLC

VARIABLES
    started,     \* start() has called server.listen and client.connect (index.ts:293-300)
    listening,   \* server.listen has bound the port (index.ts:293)
    connected,   \* client.connect() has completed   (index.ts:300)
    store,       \* the documents of container 'tweets', in the order a query returns them
    cache,       \* the Redis key 'tweets': [present, val, ttl]
    reqs,        \* the requests being handled, one record per slot
    nreq,        \* how many requests have arrived so far
    age,         \* seconds since the store last changed (counted up to MaxAge)
    setAge       \* seconds since the cache was last written (counted up to MaxAge)

vars == <<started, listening, connected, store, cache, reqs, nreq, age, setAge>>

---------------------------------------------------------------------------
(* Bounds of the model. *)

\* request slots: how many requests can be in flight at once
MaxInFlight == 2
\* requests that arrive in one behaviour
MaxRequests == 3
\* tweets in one POST body
MaxBatch == 2
\* clock steps that make up one cache TTL
TicksPerTTL == 2

Reqs == 1..MaxInFlight

---------------------------------------------------------------------------
(* Strings that are ordered: sequences of decimal digits, compared the way *)
(* JavaScript and Cosmos DB compare strings (code unit by code unit, a     *)
(* proper prefix first).                                                   *)

Min(a, b) == IF a <= b THEN a ELSE b

RECURSIVE StrLessFrom(_, _, _)
StrLessFrom(a, b, i) ==
    IF i > Len(a) THEN i <= Len(b)
    ELSE IF i > Len(b) THEN FALSE
    ELSE IF a[i] # b[i] THEN a[i] < b[i]
    ELSE StrLessFrom(a, b, i + 1)

\* ORDER BY t.id on strings
StrLess(a, b) == StrLessFrom(a, b, 1)

\* the order the ids have when they are read as numbers
RECURSIVE NumVal(_)
NumVal(s) == IF s = <<>> THEN 0 ELSE 10 * NumVal(SubSeq(s, 1, Len(s) - 1)) + s[Len(s)]

NumLess(a, b) == NumVal(a) < NumVal(b)

Id099 == <<0, 9, 9>>
Id100 == <<1, 0, 0>>
Id9 == <<9>>
Id99 == <<9, 9>>

---------------------------------------------------------------------------
(* The record model (index.ts:22-48).  An optional field is a sequence of  *)
(* length 0 (absent) or 1 (present).                                       *)

None == <<>>
Some(x) == <<x>>

Scores(p, n, g) == [positive |-> p, neutral |-> n, negative |-> g]

Sent(label, cs, off, len, txt) ==
    [sentiment |-> label, confidenceScores |-> cs, offset |-> off, length |-> len, text |-> txt]

\* a tweet as a request body carries it: `type` is "" unless the client sent one
\* (the body schema neither requires nor forbids further properties)
BodyTweet(id, txt, label, cs, sentences, type) ==
    [id |-> id, text |-> txt,
     sentiment |-> [sentiment |-> label, confidenceScores |-> cs, sentences |-> sentences],
     type |-> type]

S1 == Sent("positive", Scores(90, 5, 5), 0, 5, "good.")
S2 == Sent("negative", Scores(10, 10, 80), 6, 4, "bad.")

\* the tweets a client posts
TweetA == BodyTweet(Id099, "a", "positive", Scores(90, 5, 5), Some(<<S1>>), "")
TweetB == BodyTweet(Id100, "b", "mixed", Scores(40, 10, 50), Some(<<S1, S2>>), "other")
TweetC == BodyTweet(Id9, "c", "neutral", Scores(0, 100, 0), None, "")

TweetPool == {TweetA, TweetB, TweetC}

\* a document of another kind that shares the container
Foreign ==
    [id |-> Id99, text |-> "", type |-> "user",
     sentiment |-> [sentiment |-> "", confidenceScores |-> Scores(0, 0, 0), sentences |-> None]]

RECURSIVE SeqsUpTo(_, _)
SeqsUpTo(S, n) ==
    IF n = 0 THEN {<<>>}
    ELSE LET shorter == SeqsUpTo(S, n - 1)
         IN  shorter \cup {Append(s, x) : s \in {t \in shorter : Len(t) = n - 1}, x \in S}

Bodies == SeqsUpTo(TweetPool, MaxBatch)

---------------------------------------------------------------------------
(* The store: container 'tweets' of database 'mood'.                       *)

\* SELECT * FROM tweets t WHERE t.type = @type, @type = "tweet"
QueryAll(docs) == SelectSeq(docs, LAMBDA d : d.type = "tweet")

IdLess(a, b) == StrLess(a, b)

\* SELECT t.id FROM tweets t WHERE t.type = @type ORDER BY t.id DESC OFFSET 0 LIMIT 1
QueryLatest(docs) ==
    LET ts == QueryAll(docs)
        top == {i \in 1..Len(ts) : \A j \in 1..Len(ts) : ~IdLess(ts[i].id, ts[j].id)}
    IN  IF ts = <<>> THEN <<>> ELSE << [id |-> ts[CHOOSE i \in top : TRUE].id] >>

\* the ids of the documents of kind "tweet"
TweetIds(docs) == {docs[i].id : i \in {j \in 1..Len(docs) : docs[j].type = "tweet"}}

\* {type: "tweet", ...tweet}: the tweet's own `type` wins
UpsertDocKeepsType(tweet) == IF tweet.type = "" THEN [tweet EXCEPT !.type = "tweet"] ELSE tweet

\* what the POST handler hands to items.upsert: {...tweet, type: "tweet"}
UpsertDoc(tweet) == [tweet EXCEPT !.type = "tweet"]

\* items.upsert: create, or replace the document with the same id
Upsert(docs, doc) ==
    IF \E i \in 1..Len(docs) : docs[i].id = doc.id
    THEN [i \in 1..Len(docs) |-> IF docs[i].id = doc.id THEN doc ELSE docs[i]]
    ELSE Append(docs, doc)

---------------------------------------------------------------------------
(* The mapping of a store document to a tweet of the response              *)
(* (index.ts:124-152).                                                     *)

MapScores(cs) == [positive |-> cs.positive, neutral |-> cs.neutral, negative |-> cs.negative]

MapSentence(s) ==
    [sentiment |-> s.sentiment, confidenceScores |-> MapScores(s.confidenceScores),
     offset |-> s.offset, length |-> s.length, text |-> s.text]

\* tweetWithSentiment.sentiment.sentences.map(...) on a document without
\* `sentences` is a TypeError
MapThrows(doc) == doc.sentiment.sentences = None

MapTweet(doc) ==
    [id |-> doc.id, text |-> doc.text,
     sentiment |->
        [sentiment |-> doc.sentiment.sentiment,
         confidenceScores |-> MapScores(doc.sentiment.confidenceScores),
         sentences |-> LET ss == doc.sentiment.sentences[1]
                       IN  [i \in 1..Len(ss) |-> MapSentence(ss[i])]]]

\* response.resources.map(...)
MapResources(resources) == [i \in 1..Len(resources) |-> MapTweet(resources[i])]

ResourcesThrow(resources) == \E i \in 1..Len(resources) : MapThrows(resources[i])

---------------------------------------------------------------------------
(* JSON text.  The value of the Redis key is a string; of a string the     *)
(* model keeps its kind and, for the text of an array, the text of every   *)
(* element: the values of the members in the order JSON.stringify writes   *)
(* them.                                                                   *)
(*   "empty"    the string of length 0                                     *)
(*   "invalid"  text that is not JSON                                      *)
(*   "null"     the text  null                                             *)
(*   "object"   the text of a JSON object, e.g. {}                         *)
(*   "array"    the text of an array of tweets                             *)

ScoresText(cs) == <<cs.positive, cs.neutral, cs.negative>>

SentenceText(s) == <<s.sentiment, ScoresText(s.confidenceScores), s.offset, s.length, s.text>>

TweetText(t) ==
    <<t.id, t.text, t.sentiment.sentiment, ScoresText(t.sentiment.confidenceScores),
      [i \in 1..Len(t.sentiment.sentences) |-> SentenceText(t.sentiment.sentences[i])]>>

\* JSON.stringify(tweets)
JSONstringify(tweets) ==
    [kind |-> "array", items |-> [i \in 1..Len(tweets) |-> TweetText(tweets[i])]]

ParseScores(x) == [positive |-> x[1], neutral |-> x[2], negative |-> x[3]]

ParseSentence(x) ==
    [sentiment |-> x[1], confidenceScores |-> ParseScores(x[2]),
     offset |-> x[3], length |-> x[4], text |-> x[5]]

ParseTweet(x) ==
    [id |-> x[1], text |-> x[2],
     sentiment |-> [sentiment |-> x[3], confidenceScores |-> ParseScores(x[4]),
                    sentences |-> [i \in 1..Len(x[5]) |-> ParseSentence(x[5][i])]]]

\* JSON.parse(text) throws a SyntaxError
ParseThrows(text) == text.kind \in {"invalid"}

\* JSON.parse(text), of a text that is an array
JSONparse(text) == [i \in 1..Len(text.items) |-> ParseTweet(text.items[i])]

\* `if (tweetsFromCache)`: null and "" are falsy
Truthy(got) == got # None /\ got[1].kind # "empty"

EmptyText == [kind |-> "empty", items |-> <<>>]
InvalidText == [kind |-> "invalid", items |-> <<>>]
NullText == [kind |-> "null", items |-> <<>>]
ObjectText == [kind |-> "object", items |-> <<>>]

---------------------------------------------------------------------------
(* The cache: the Redis key 'tweets' and its remaining time to live.       *)

\* { EX: 60 * 60 * 24 }
EX == 60 * 60 * 24

\* the seconds one step of the clock takes
TickSeconds == EX \div TicksPerTTL

\* the clocks of the model are not counted beyond this
MaxAge == EX + TickSeconds

Absent == [present |-> FALSE, val |-> EmptyText, ttl |-> 0]

Entry(text, ttl) == [present |-> TRUE, val |-> text, ttl |-> ttl]

\* client.get('tweets'): the string, or null
CacheGet(c) == IF c.present THEN Some(c.val) ELSE None

\* a set whose expiry is an hour
CacheSetHour(text) == Entry(text, 60 * 60)

\* client.set('tweets', value, { EX: 60 * 60 * 24 })
CacheSet(text) == Entry(text, EX)

\* a key that never runs out (a set without EX)
ExpireNever(c, seconds) == c

\* Redis drops a key when its time to live has run out
Expire(c, seconds) ==
    IF c.present /\ c.ttl > seconds THEN [c EXCEPT !.ttl = c.ttl - seconds] ELSE Absent

---------------------------------------------------------------------------
(* Requests.                                                               *)

Idle ==
    [kind |-> "idle", pc |-> "idle", body |-> <<>>, idx |-> 0,
     tweetsFromCache |-> None, tweets |-> <<>>, resources |-> <<>>,
     queries |-> 0, sets |-> 0, threw |-> "", status |-> 0, data |-> <<>>, id |-> <<>>,
     known |-> {}, owed |-> {}, late |-> FALSE, setLate |-> FALSE, overtaken |-> FALSE]

Free(r) == reqs[r].pc \in {"idle", "done"}

InFlight(r) == ~Free(r)

\* a finished request leaves nothing behind in the process: its record shows the
\* response only in the state its last step leads to
Sweep(rs) == [q \in Reqs |-> IF rs[q].pc = "done" THEN Idle ELSE rs[q]]

\* the ids a POST that has just failed had upserted before the upsert that threw
FailedPrefix(rs) ==
    UNION { {rs[q].body[i].id : i \in 1..(rs[q].idx - 1)} :
              q \in {x \in Reqs : rs[x].kind = "postSentiment" /\ rs[x].pc = "done"
                                    /\ rs[x].threw = "upsert"} }

\* reply.status(code).send(...)
Reply(rq, code) == [rq EXCEPT !.pc = "done", !.status = code]

\* a handler that catches the exception and answers 200 with what it has
ThrowAnswersAnyway(rq, what) == [Reply(rq, 200) EXCEPT !.threw = what]

\* an exception leaves the handler: Fastify answers 500
Throw(rq, what) == [rq EXCEPT !.pc = "done", !.status = 500, !.threw = what]

---------------------------------------------------------------------------
(* start (index.ts:287-303): listen is called and not awaited, then the    *)
(* Redis client is created and connect() awaited.  The port is bound and   *)
(* the connection is established some time after the calls, in either      *)
(* order.                                                                  *)

\* what the store and the cache hold when the process starts: both outlive it, and
\* the cache is a Redis instance whose entry the process does not check when it reads it
InitStores == {<<Foreign>>, <<Foreign, UpsertDoc(TweetA)>>}

InitCaches ==
    {Absent, Entry(InvalidText, EX), Entry(NullText, EX), Entry(ObjectText, EX),
     Entry(JSONstringify(<<>>), EX), Entry(JSONstringify(MapResources(<<UpsertDoc(TweetB)>>)), EX)}

Init ==
    /\ started = FALSE
    /\ listening = FALSE
    /\ connected = FALSE
    /\ store \in InitStores
    /\ cache \in InitCaches
    /\ reqs = [r \in Reqs |-> Idle]
    /\ nreq = 0
    /\ age = 0
    /\ setAge = 0

\* start, from the end of `await server.ready()` to `await client.connect()`
Start ==
    /\ ~started
    /\ started' = TRUE
    /\ reqs' = Sweep(reqs)
    /\ UNCHANGED <<listening, connected, store, cache, nreq, age, setAge>>

\* the port is bound: requests arrive from now on
Listen ==
    /\ started
    /\ ~listening
    /\ listening' = TRUE
    /\ reqs' = Sweep(reqs)
    /\ UNCHANGED <<started, connected, store, cache, nreq, age, setAge>>

\* a connect that completes whether or not start has run
ConnectAtLoad ==
    /\ ~connected
    /\ connected' = TRUE
    /\ reqs' = Sweep(reqs)
    /\ UNCHANGED <<started, listening, store, cache, nreq, age, setAge>>

\* client.connect() resolves
Connect ==
    /\ started
    /\ ~connected
    /\ connected' = TRUE
    /\ reqs' = Sweep(reqs)
    /\ UNCHANGED <<started, listening, store, cache, nreq, age, setAge>>

\* time passes: Redis counts the entry's time to live down
Tick ==
    /\ cache.present
    /\ cache' = Expire(cache, TickSeconds)
    /\ reqs' = Sweep(reqs)
    /\ UNCHANGED <<started, listening, connected, store, nreq, age, setAge>>

\* time passes, and the two clocks of the model count it
TickClock ==
    /\ cache' = Expire(cache, TickSeconds)
    /\ age' = Min(age + TickSeconds, MaxAge)
    /\ setAge' = Min(setAge + TickSeconds, MaxAge)
    /\ <<cache', age', setAge'>> # <<cache, age, setAge>>
    /\ reqs' = Sweep(reqs)
    /\ UNCHANGED <<started, listening, connected, store, nreq>>

---------------------------------------------------------------------------
(* GET /sentiment (index.ts:88-162).                                       *)

\* the request arrives; the handler runs up to `await client.get('tweets')`
BeginGetSentiment(r) ==
    /\ listening
    /\ Free(r)
    /\ \A q \in Reqs : q < r => InFlight(q)
    /\ nreq < MaxRequests
    /\ nreq' = nreq + 1
    /\ reqs' = [Sweep(reqs) EXCEPT ![r] = [Idle EXCEPT !.kind = "getSentiment", !.pc = "get",
                                                        !.known = TweetIds(store),
                                                        !.owed = FailedPrefix(reqs),
                                                        !.late = (age > EX)]]
    /\ UNCHANGED <<started, listening, connected, store, cache, age, setAge>>

\* a handler that reads the cache and goes to the store all the same
AfterGetThenStore(rq, got) == [rq EXCEPT !.tweetsFromCache = got, !.pc = "query"]

\* the handler from the value client.get resolved with to its next await or its reply
AfterGet(rq, got) ==
    LET rq1 == [rq EXCEPT !.tweetsFromCache = got]
    IN  IF ~Truthy(got) THEN [rq1 EXCEPT !.pc = "query"]
        ELSE IF ParseThrows(got[1]) THEN Throw(rq1, "parse")
        \* tweets = null: tweets.length is a TypeError
        ELSE IF got[1].kind = "null" THEN Throw(rq1, "length")
        \* tweets = {}: tweets.length is undefined, not 0; the response schema
        \* (data: array) refuses the object when the reply is serialized
        ELSE IF got[1].kind = "object" THEN Throw(rq1, "serialize")
        ELSE LET parsed == JSONparse(got[1])
             IN  IF Len(parsed) = 0 THEN [rq1 EXCEPT !.pc = "query"]
                 ELSE [Reply(rq1, 200) EXCEPT !.tweets = parsed, !.data = parsed]

GetFromCache(r) ==
    /\ reqs[r].kind = "getSentiment" /\ reqs[r].pc = "get"
    /\ \/ /\ connected
          /\ reqs' = [Sweep(reqs) EXCEPT ![r] =
                          AfterGet([reqs[r] EXCEPT !.setLate = (setAge > EX)], CacheGet(cache))]
       \/ reqs' = [Sweep(reqs) EXCEPT ![r] = Throw(reqs[r], "get")]
    /\ UNCHANGED <<started, listening, connected, store, cache, nreq, age, setAge>>

\* a handler that writes the cache whatever the store returned
AfterQueryAlwaysCaches(rq, resources) ==
    LET rq1 == [rq EXCEPT !.resources = resources, !.queries = rq.queries + 1]
    IN  IF ResourcesThrow(resources) THEN Throw(rq1, "map")
        ELSE [rq1 EXCEPT !.tweets = MapResources(resources), !.pc = "set"]

\* the handler from the response of items.query(querySpec).fetchAll() on
AfterQuery(rq, resources) ==
    LET rq1 == [rq EXCEPT !.resources = resources, !.queries = rq.queries + 1]
    IN  IF Len(resources) > 0
        THEN IF ResourcesThrow(resources) THEN Throw(rq1, "map")
             ELSE [rq1 EXCEPT !.tweets = MapResources(resources), !.pc = "set"]
        ELSE [Reply(rq1, 200) EXCEPT !.data = rq1.tweets]

QueryStore(r) ==
    /\ reqs[r].kind = "getSentiment" /\ reqs[r].pc = "query"
    /\ \/ reqs' = [Sweep(reqs) EXCEPT ![r] = AfterQuery(reqs[r], QueryAll(store))]
       \/ reqs' = [Sweep(reqs) EXCEPT ![r] = Throw([reqs[r] EXCEPT !.queries = @ + 1], "query")]
    /\ UNCHANGED <<started, listening, connected, store, cache, nreq, age, setAge>>

\* the handler after `await client.set(...)`
AfterSet(rq) == [Reply(rq, 200) EXCEPT !.sets = rq.sets + 1, !.data = rq.tweets]

\* a set that appends the list to the one the key holds
WriteCacheAppends(r) ==
    /\ reqs[r].kind = "getSentiment" /\ reqs[r].pc = "set"
    /\ \/ /\ connected
          /\ cache' = CacheSet(JSONstringify(
                         (IF cache.present THEN JSONparse(cache.val) ELSE <<>>) \o reqs[r].tweets))
          /\ setAge' = 0
          /\ reqs' = [Sweep(reqs) EXCEPT ![r] = AfterSet(reqs[r])]
       \/ /\ reqs' = [Sweep(reqs) EXCEPT ![r] = Throw(reqs[r], "set")]
          /\ UNCHANGED <<cache, setAge>>
    /\ UNCHANGED <<started, listening, connected, store, nreq, age>>

WriteCache(r) ==
    /\ reqs[r].kind = "getSentiment" /\ reqs[r].pc = "set"
    /\ \/ /\ connected
          /\ cache' = CacheSet(JSONstringify(reqs[r].tweets))
          /\ setAge' = 0
          /\ reqs' = [Sweep(reqs) EXCEPT ![r] = AfterSet(reqs[r])]
       \/ /\ reqs' = [Sweep(reqs) EXCEPT ![r] = Throw(reqs[r], "set")]
          /\ UNCHANGED <<cache, setAge>>
    /\ UNCHANGED <<started, listening, connected, store, nreq, age>>

---------------------------------------------------------------------------
(* POST /sentiment (index.ts:214-236).                                     *)

BeginPostSentiment(r) ==
    /\ listening
    /\ Free(r)
    /\ \A q \in Reqs : q < r => InFlight(q)
    /\ nreq < MaxRequests
    /\ nreq' = nreq + 1
    /\ \E body \in Bodies :
          LET rq == [Idle EXCEPT !.kind = "postSentiment", !.body = body]
          IN  reqs' = [Sweep(reqs) EXCEPT ![r] =
                          IF Len(body) > 0 THEN [rq EXCEPT !.pc = "upsert", !.idx = 1]
                          ELSE Reply(rq, 200)]
    /\ UNCHANGED <<started, listening, connected, store, cache, age, setAge>>

\* a handler that acknowledges after the first upsert
AfterUpsertAcknowledgesFirst(rq) == Reply([rq EXCEPT !.idx = rq.idx + 1], 200)

\* the handler after one `await ...items.upsert(...)`
AfterUpsert(rq) ==
    IF rq.idx = Len(rq.body) THEN Reply([rq EXCEPT !.idx = rq.idx + 1], 200)
    ELSE [rq EXCEPT !.idx = rq.idx + 1]

\* a handler that catches the failed upsert and acknowledges the request
UpsertFailedAcknowledged(rq) == [Throw(rq, "upsert") EXCEPT !.status = 200]

\* a handler that tries the same upsert again
UpsertFailedRetried(rq) == [rq EXCEPT !.threw = "upsert"]

\* items.upsert throws inside the for loop: nothing catches it
UpsertFailed(rq) == Throw(rq, "upsert")

UpsertNext(r) ==
    /\ reqs[r].kind = "postSentiment" /\ reqs[r].pc = "upsert"
    /\ \/ /\ store' = Upsert(store, UpsertDoc(reqs[r].body[reqs[r].idx]))
          /\ age' = IF store' # store THEN 0 ELSE age
          /\ reqs' = [q \in Reqs |->
                        IF q = r THEN AfterUpsert(reqs[r])
                        ELSE IF reqs[q].kind = "getSentiment" /\ InFlight(q) /\ store' # store
                             THEN [reqs[q] EXCEPT !.overtaken = TRUE]
                             ELSE Sweep(reqs)[q]]
       \/ /\ reqs' = [Sweep(reqs) EXCEPT ![r] = UpsertFailed(reqs[r])]
          /\ UNCHANGED <<store, age>>
    /\ UNCHANGED <<started, listening, connected, cache, nreq, setAge>>

---------------------------------------------------------------------------
(* GET /last-known-tweet (index.ts:256-285).                               *)

BeginLastKnownTweet(r) ==
    /\ listening
    /\ Free(r)
    /\ \A q \in Reqs : q < r => InFlight(q)
    /\ nreq < MaxRequests
    /\ nreq' = nreq + 1
    /\ reqs' = [Sweep(reqs) EXCEPT ![r] = [Idle EXCEPT !.kind = "lastKnownTweet", !.pc = "latest"]]
    /\ UNCHANGED <<started, listening, connected, store, cache, age, setAge>>

\* a handler that answers 200 with an empty id when nothing was found
AfterLatestNo404(rq, resources) ==
    LET rq1 == [rq EXCEPT !.resources = resources, !.queries = rq.queries + 1]
    IN  IF Len(resources) > 0 THEN [Reply(rq1, 200) EXCEPT !.id = resources[1].id]
        ELSE [Reply(rq1, 200) EXCEPT !.id = <<>>]

\* the handler from the response of items.query(querySpec).fetchAll() on
AfterLatest(rq, resources) ==
    LET rq1 == [rq EXCEPT !.resources = resources, !.queries = rq.queries + 1]
    IN  IF Len(resources) > 0 THEN [Reply(rq1, 200) EXCEPT !.id = resources[1].id]
        ELSE [Reply(rq1, 404) EXCEPT !.id = <<>>]

QueryLatestId(r) ==
    /\ reqs[r].kind = "lastKnownTweet" /\ reqs[r].pc = "latest"
    /\ \/ reqs' = [Sweep(reqs) EXCEPT ![r] = AfterLatest(reqs[r], QueryLatest(store))]
       \/ reqs' = [Sweep(reqs) EXCEPT ![r] = Throw([reqs[r] EXCEPT !.queries = @ + 1], "query")]
    /\ UNCHANGED <<started, listening, connected, store, cache, nreq, age, setAge>>

---------------------------------------------------------------------------

Next ==
    \/ Start
    \/ Listen
    \/ Connect
    \/ Tick
    \/ \E r \in Reqs : BeginGetSentiment(r)
    \/ \E r \in Reqs : GetFromCache(r)
    \/ \E r \in Reqs : QueryStore(r)
    \/ \E r \in Reqs : WriteCache(r)
    \/ \E r \in Reqs : BeginPostSentiment(r)
    \/ \E r \in Reqs : UpsertNext(r)
    \/ \E r \in Reqs : BeginLastKnownTweet(r)
    \/ \E r \in Reqs : QueryLatestId(r)

Spec == Init /\ [][Next]_vars

(* The service once it is up, its cache empty, with the clocks running:    *)
(* GET /sentiment and POST /sentiment against time.  (GET /last-known-     *)
(* tweet reads the store and changes nothing.)                             *)
InitClock ==
    /\ started = TRUE
    /\ listening = TRUE
    /\ connected = TRUE
    /\ store = <<Foreign, UpsertDoc(TweetA)>>
    /\ cache = Absent
    /\ reqs = [r \in Reqs |-> Idle]
    /\ nreq = 0
    /\ age = 0
    /\ setAge = 0

NextClock ==
    \/ TickClock
    \/ \E r \in Reqs : BeginGetSentiment(r)
    \/ \E r \in Reqs : GetFromCache(r)
    \/ \E r \in Reqs : QueryStore(r)
    \/ \E r \in Reqs : WriteCache(r)
    \/ \E r \in Reqs : BeginPostSentiment(r)
    \/ \E r \in Reqs : UpsertNext(r)

SpecClock == InitClock /\ [][NextClock]_vars

(* The service started against a Redis instance in which the key 'tweets'  *)
(* is not set and which nothing else writes.                               *)
InitFresh ==
    /\ started = FALSE
    /\ listening = FALSE
    /\ connected = FALSE
    /\ store \in InitStores
    /\ cache = Absent
    /\ reqs = [r \in Reqs |-> Idle]
    /\ nreq = 0
    /\ age = 0
    /\ setAge = 0

SpecFresh == InitFresh /\ [][Next]_vars


---------------------------------------------------------------------------
(* What a finished request shows.  A record with pc = "done" is there in   *)
(* the state the request's last step leads to, and in no later one.        *)

DoneGet(rq) == rq.kind = "getSentiment" /\ rq.pc = "done"

DonePost(rq) == rq.kind = "postSentiment" /\ rq.pc = "done"

DoneLatest(rq) == rq.kind = "lastKnownTweet" /\ rq.pc = "done"

\* the ids of a list of tweets
Ids(ts) == {ts[i].id : i \in 1..Len(ts)}

\* client.get resolved with the text of a non-empty array
Hit(rq) ==
    /\ rq.tweetsFromCache # None
    /\ rq.tweetsFromCache[1].kind = "array"
    /\ Len(rq.tweetsFromCache[1].items) > 0

\* client.get resolved with text that is no array of tweets
Malformed(rq) ==
    /\ rq.tweetsFromCache # None
    /\ rq.tweetsFromCache[1].kind \in {"invalid", "null", "object"}

---------------------------------------------------------------------------
(* C1  Cache-hit short-circuit: a GET /sentiment whose cache read gave the  *)
(* text of a non-empty list answers 200 with exactly that list, and has    *)
(* queried the store zero times and written the cache zero times, whatever *)
(* the store holds.                                                        *)
C1_CacheHitShortCircuit ==
    \A r \in Reqs :
        (DoneGet(reqs[r]) /\ Hit(reqs[r])) =>
            /\ reqs[r].status = 200
            /\ JSONstringify(reqs[r].data) = reqs[r].tweetsFromCache[1]
            /\ Len(reqs[r].data) = Len(reqs[r].tweetsFromCache[1].items)
            /\ reqs[r].queries = 0
            /\ reqs[r].sets = 0

\* a hit answered with a list that lacks a tweet the store holds
C1_Witness ==
    \E r \in Reqs :
        /\ DoneGet(reqs[r]) /\ Hit(reqs[r]) /\ reqs[r].status = 200
        /\ \E i \in 1..Len(store) :
              store[i].type = "tweet" /\ store[i].id \notin Ids(reqs[r].data)

(* C2  Cache-miss population: a GET /sentiment that found the key absent,   *)
(* got a non-empty list of well-formed tweet documents from the store and  *)
(* whose cache write did not fail answers 200 with the documents mapped    *)
(* one by one in the store's order; its last step leaves the key holding   *)
(* the serialization of that list with 86400 seconds to live.              *)
C2_CacheMissPopulation ==
    \A r \in Reqs :
        ( /\ DoneGet(reqs[r])
          /\ reqs[r].tweetsFromCache = None
          /\ reqs[r].queries = 1
          /\ Len(reqs[r].resources) > 0
          /\ \A i \in 1..Len(reqs[r].resources) : reqs[r].resources[i].sentiment.sentences # None
          /\ reqs[r].threw # "set" ) =>
            /\ reqs[r].status = 200
            /\ Len(reqs[r].data) = Len(reqs[r].resources)
            /\ \A i \in 1..Len(reqs[r].data) :
                  LET t == reqs[r].data[i]
                      d == reqs[r].resources[i]
                  IN  /\ t.id = d.id
                      /\ t.text = d.text
                      /\ t.sentiment.sentiment = d.sentiment.sentiment
                      /\ t.sentiment.confidenceScores = d.sentiment.confidenceScores
                      /\ t.sentiment.sentences = d.sentiment.sentences[1]
            /\ reqs[r].sets = 1
            /\ cache.present
            /\ cache.ttl = 86400
            /\ cache.val.kind = "array"
            /\ JSONparse(cache.val) = reqs[r].data

\* the case with two tweets in the store
C2_Witness ==
    \E r \in Reqs :
        /\ DoneGet(reqs[r]) /\ reqs[r].tweetsFromCache = None /\ reqs[r].status = 200
        /\ Len(reqs[r].resources) = 2 /\ Len(reqs[r].data) = 2
        /\ reqs[r].sets = 1

(* C3  Malformed-cache fallback, as the specification states it: a GET      *)
(* /sentiment that read a cache entry that is no list of tweets queries    *)
(* the store and the entry causes no request error.                        *)
C3_MalformedCacheFallback ==
    \A r \in Reqs :
        (DoneGet(reqs[r]) /\ Malformed(reqs[r])) =>
            /\ reqs[r].queries = 1
            /\ reqs[r].threw \notin {"parse", "length", "serialize"}

(* C4  Write-back failure, as the specification states it: a GET            *)
(* /sentiment with a cache miss and a non-empty store result whose cache   *)
(* set throws still answers 200 with the mapped list.                      *)
C4_WriteBackFailureAbsorbed ==
    \A r \in Reqs :
        (DoneGet(reqs[r]) /\ reqs[r].threw = "set") =>
            /\ reqs[r].status = 200
            /\ reqs[r].data = MapResources(reqs[r].resources)

(* C5  Cache failure on read, as the specification states it: a GET         *)
(* /sentiment whose cache get throws goes on to query the store and the    *)
(* caller does not see the failure.                                        *)
C5_CacheReadFailureAbsorbed ==
    \A r \in Reqs :
        (DoneGet(reqs[r]) /\ reqs[r].threw = "get") =>
            /\ reqs[r].queries = 1
            /\ reqs[r].status # 500


(* C6  Empty-store non-caching: a GET /sentiment with a cache miss whose    *)
(* store query returned zero records answers 200 with an empty list, and   *)
(* its last step writes nothing to the cache; a GET /sentiment answers 200 *)
(* with an empty list only while the store holds no tweet, so once a POST  *)
(* has stored tweets no GET answers with an empty list, and a GET that     *)
(* reads the store answers with every tweet stored before it began.        *)
C6_EmptyStoreNonCaching ==
    [][\A r \in Reqs :
          /\ ( /\ DoneGet(reqs'[r])
               /\ reqs'[r].queries = 1
               /\ reqs'[r].threw = ""
               /\ Len(reqs'[r].resources) = 0 ) =>
                 /\ reqs'[r].status = 200
                 /\ reqs'[r].data = <<>>
                 /\ reqs'[r].sets = 0
                 /\ cache' = cache
          /\ (DoneGet(reqs'[r]) /\ reqs'[r].status = 200 /\ reqs'[r].data = <<>>) =>
                 /\ reqs'[r].queries = 1
                 /\ \A i \in 1..Len(store') : store'[i].type # "tweet"
          /\ (DoneGet(reqs'[r]) /\ reqs'[r].status = 200 /\ reqs'[r].queries = 1) =>
                 reqs'[r].known \subseteq Ids(reqs'[r].data)
      ]_vars

\* an empty answer from the store with the key unset before and after
C6_Witness ==
    \E r \in Reqs :
        /\ DoneGet(reqs[r]) /\ reqs[r].status = 200 /\ reqs[r].data = <<>>
        /\ reqs[r].tweetsFromCache = None /\ reqs[r].queries = 1
        /\ ~cache.present

(* C7  Partial-batch persistence, as the specification states it for the    *)
(* follow-up read: a GET /sentiment that arrives after a POST failed at    *)
(* its N-th upsert and is answered 200 includes tweets 1..N-1 of the batch.*)
C7_FollowUpIncludesPrefix ==
    \A r \in Reqs :
        (DoneGet(reqs[r]) /\ reqs[r].status = 200) => reqs[r].owed \subseteq Ids(reqs[r].data)

(* C7, amended: when the N-th upsert of a POST /sentiment throws, the      *)
(* store is left as upserts 1..N-1 made it (nothing is rolled back, no     *)
(* later tweet of the batch is upserted), the answer is 500, the ids of    *)
(* tweets 1..N-1 are ids of stored tweets and no stored id ever goes away; *)
(* a follow-up GET /sentiment that reads the store and is answered 200     *)
(* includes them.  (One that hits the cache returns the cached list.)      *)
C7_PartialBatchPersistence ==
    [][\A r \in Reqs :
          /\ ( /\ reqs[r].kind = "postSentiment" /\ reqs[r].pc = "upsert"
               /\ reqs'[r].pc = "done" /\ reqs'[r].threw = "upsert" ) =>
                 /\ store' = store
                 /\ reqs'[r].status = 500
                 /\ reqs'[r].idx = reqs[r].idx
                 /\ reqs'[r].body = reqs[r].body
          /\ reqs'[r].kind = "postSentiment" =>
                 \A i \in 1..(reqs'[r].idx - 1) :
                    \E j \in 1..Len(store') :
                       store'[j].id = reqs'[r].body[i].id /\ store'[j].type = "tweet"
          /\ TweetIds(store) \subseteq TweetIds(store')
          /\ (DoneGet(reqs'[r]) /\ reqs'[r].status = 200 /\ reqs'[r].queries = 1) =>
                 /\ reqs'[r].owed \subseteq reqs'[r].known
                 /\ reqs'[r].known \subseteq Ids(reqs'[r].data)
      ]_vars

\* a follow-up read through the store that shows the prefix of a failed batch
C7_Witness ==
    \E r \in Reqs :
        /\ DoneGet(reqs[r]) /\ reqs[r].status = 200 /\ reqs[r].queries = 1
        /\ reqs[r].owed # {}
        /\ reqs[r].owed \subseteq Ids(reqs[r].data)

(* C9  Write then latest-id: a GET /last-known-tweet whose query did not    *)
(* fail, made while the store holds documents of type "tweet", answers 200 *)
(* with the id of one of them that no other one exceeds in string order;   *)
(* it does not read or write the cache, and needs no cache connection.     *)
C9_LatestIdIsStringGreatest ==
    [][\A r \in Reqs :
          /\ ( /\ DoneLatest(reqs'[r]) /\ reqs'[r].threw = ""
               /\ \E i \in 1..Len(store') : store'[i].type = "tweet" ) =>
                 /\ reqs'[r].status = 200
                 /\ \E i \in 1..Len(store') :
                       store'[i].type = "tweet" /\ store'[i].id = reqs'[r].id
                 /\ \A i \in 1..Len(store') :
                       store'[i].type = "tweet" => ~StrLess(reqs'[r].id, store'[i].id)
          /\ (reqs'[r].kind = "lastKnownTweet" /\ reqs'[r] # reqs[r]) =>
                 /\ cache' = cache
                 /\ reqs'[r].tweetsFromCache = None
                 /\ reqs'[r].sets = 0
      ]_vars

\* ids "099" and "100" stored: the answer is "100"
C9_Witness ==
    \E r \in Reqs :
        /\ DoneLatest(reqs[r]) /\ reqs[r].status = 200 /\ reqs[r].id = Id100
        /\ \E i \in 1..Len(store) : store[i].type = "tweet" /\ store[i].id = Id099

(* C10  Latest-id on empty store: a GET /last-known-tweet whose query did   *)
(* not fail answers 404 with id "" exactly when the store holds no         *)
(* document of type "tweet" at the query, and otherwise 200 with the       *)
(* non-empty id of a stored tweet; it answers 404 in no other case.        *)
C10_LatestIdOnEmptyStore ==
    \A r \in Reqs :
        DoneLatest(reqs[r]) =>
            LET none == \A i \in 1..Len(store) : store[i].type # "tweet"
            IN  /\ reqs[r].status \in {200, 404, 500}
                /\ reqs[r].status = 500 <=> reqs[r].threw = "query"
                /\ reqs[r].status = 404 <=> (none /\ reqs[r].threw = "")
                /\ reqs[r].status = 404 => reqs[r].id = <<>>
                /\ reqs[r].status = 200 =>
                      /\ reqs[r].id # <<>>
                      /\ \E i \in 1..Len(store) :
                            store[i].type = "tweet" /\ store[i].id = reqs[r].id

\* 404 while the container holds a document of another kind
C10_Witness ==
    \E r \in Reqs :
        /\ DoneLatest(reqs[r]) /\ reqs[r].status = 404 /\ reqs[r].id = <<>>
        /\ Len(store) > 0


\* the list is what the store holds now: one tweet for every document of type
\* "tweet", with its id, text and sentiment
ShowsStore(data) ==
    /\ Len(data) = Cardinality({j \in 1..Len(store) : store[j].type = "tweet"})
    /\ \A j \in 1..Len(store) :
          store[j].type = "tweet" =>
             \E i \in 1..Len(data) :
                /\ data[i].id = store[j].id
                /\ data[i].text = store[j].text
                /\ data[i].sentiment.sentiment = store[j].sentiment.sentiment
                /\ data[i].sentiment.confidenceScores = store[j].sentiment.confidenceScores
                /\ Some(data[i].sentiment.sentences) = store[j].sentiment.sentences

(* C8  Staleness bounded by the TTL, as the specification states it: a GET  *)
(* /sentiment issued more than one TTL after the store last changed, with  *)
(* no change while it runs, that is answered 200 returns what the store    *)
(* holds.                                                                  *)
C8_StaleAtMostOneTTLAfterWrite ==
    \A r \in Reqs :
        ( /\ DoneGet(reqs[r]) /\ reqs[r].status = 200
          /\ reqs[r].late /\ ~reqs[r].overtaken ) =>
            ShowsStore(reqs[r].data)

(* C8, amended: the TTL runs from the cache write, not from the store      *)
(* write.  A GET /sentiment that reads the cache more than one TTL after   *)
(* the cache was last written, issued more than one TTL after the store    *)
(* last changed, with no change while it runs, finds no entry, reads the   *)
(* store and, answered 200, returns what the store holds.  (A read that    *)
(* queried the store before a POST can write the cache after it; that      *)
(* entry is served for one TTL from then on.)                              *)
C8_StaleAtMostOneTTLAfterCacheWrite ==
    \A r \in Reqs :
        ( /\ DoneGet(reqs[r]) /\ reqs[r].status = 200
          /\ reqs[r].late /\ reqs[r].setLate /\ ~reqs[r].overtaken ) =>
            /\ reqs[r].tweetsFromCache = None
            /\ reqs[r].queries = 1
            /\ ShowsStore(reqs[r].data)

\* a read, long after a POST added a tweet and after the old entry ran out, that shows it
C8_Witness ==
    \E r \in Reqs :
        /\ DoneGet(reqs[r]) /\ reqs[r].status = 200
        /\ reqs[r].late /\ reqs[r].setLate /\ ~reqs[r].overtaken
        /\ Len(reqs[r].data) = 2
        /\ setAge = 0 /\ age > 86400


---------------------------------------------------------------------------
\* the tweet of the pool a client posts under this id
Posted(id) == CHOOSE p \in TweetPool : p.id = id

\* a tweet of a response has the fields of the posted tweet p
SameFields(t, p) ==
    /\ t.id = p.id
    /\ t.text = p.text
    /\ t.sentiment.sentiment = p.sentiment.sentiment
    /\ t.sentiment.confidenceScores = p.sentiment.confidenceScores
    /\ Some(t.sentiment.sentences) = p.sentiment.sentences

(* C11  Round-trip normalization, as the specification states it: a GET     *)
(* /sentiment that takes the store path, after tweets were accepted by     *)
(* POST /sentiment and stored, answers 200 and returns for every one of    *)
(* them a tweet equal to the posted one field for field (query and cache   *)
(* set not failing).                                                       *)
C11_RoundTripNormalization ==
    \A r \in Reqs :
        (DoneGet(reqs[r]) /\ reqs[r].queries = 1 /\ reqs[r].threw \notin {"query", "set"}) =>
            /\ reqs[r].status = 200
            /\ \A id \in reqs[r].known \cap {p.id : p \in TweetPool} :
                  \E i \in 1..Len(reqs[r].data) : SameFields(reqs[r].data[i], Posted(id))

(* C12  The write path never touches the cache: every step of a POST       *)
(* /sentiment (its arrival, each upsert, a failing upsert) leaves the key  *)
(* 'tweets' with the value and the remaining time to live it had; the      *)
(* request answers 200 only when all the upserts of its batch have been    *)
(* made, and then every tweet of the batch is in the store.                *)
C12_WritePathLeavesCache ==
    [][\A r \in Reqs :
          /\ (reqs'[r].kind = "postSentiment" /\ reqs'[r] # reqs[r]) =>
                 /\ cache' = cache
                 /\ setAge' = setAge
                 /\ reqs'[r].sets = 0
                 /\ reqs'[r].tweetsFromCache = None
          /\ (DonePost(reqs'[r]) /\ reqs'[r].status = 200) =>
                 /\ Len(reqs'[r].body) > 0 => reqs'[r].idx = Len(reqs'[r].body) + 1
                 /\ reqs'[r].threw = ""
                 /\ \A i \in 1..Len(reqs'[r].body) :
                       \E j \in 1..Len(store') : store'[j] = UpsertDoc(reqs'[r].body[i])
      ]_vars

\* a batch of two acknowledged while the key holds a list without one of them
C12_Witness ==
    \E r \in Reqs :
        /\ DonePost(reqs[r]) /\ reqs[r].status = 200 /\ Len(reqs[r].body) = 2
        /\ cache.present /\ cache.val.kind = "array"
        /\ \E i \in 1..2 : \A k \in 1..Len(cache.val.items) :
                              cache.val.items[k][1] # reqs[r].body[i].id

---------------------------------------------------------------------------
\* The store never loses a document, and a document that is upserted again is
\* replaced by an equal one (the pool has one tweet per id): what the store held
\* at an earlier time is a prefix of what it holds now.
\* `text` is the serialization of the mapped result of the query on such a prefix.
SnapshotOfPast(text, docs) ==
    \E k \in 0..Len(docs) :
        LET rs == QueryAll(SubSeq(docs, 1, k))
        IN  /\ Len(rs) > 0
            /\ ~ResourcesThrow(rs)
            /\ text = JSONstringify(MapResources(rs))

(* C13  Whenever the key 'tweets' is set by the service, its value is the   *)
(* serialized, mapped result of one store query made earlier: a query       *)
(* returns what the store holds at that moment, a request keeps the result *)
(* unchanged until it writes it, a cache write replaces the whole value by *)
(* the writer's own result with a fresh time to live (the last writer      *)
(* wins), and the cache changes in no other way than by such a write or by *)
(* the entry's expiry.                                                     *)
C13_CacheIsOneQuerySnapshot ==
    [][/\ cache'.present => SnapshotOfPast(cache'.val, store')
       /\ \A r \in Reqs :
             /\ ( /\ reqs[r].kind = "getSentiment" /\ reqs[r].pc = "query"
                  /\ reqs'[r].kind = "getSentiment" /\ reqs'[r].pc # "query"
                  /\ reqs'[r].threw # "query" ) =>
                    reqs'[r].resources = QueryAll(store)
             /\ (reqs[r].pc = "set" /\ reqs'[r].pc = "set") =>
                    /\ reqs'[r].resources = reqs[r].resources
                    /\ reqs'[r].tweets = reqs[r].tweets
             /\ (reqs[r].pc = "set" /\ DoneGet(reqs'[r]) /\ reqs'[r].sets = 1) =>
                    /\ reqs[r].queries = 1
                    /\ cache' = Entry(JSONstringify(MapResources(reqs[r].resources)), EX)
                    /\ reqs'[r].data = MapResources(reqs[r].resources)
       /\ cache' # cache =>
             \/ cache' = Expire(cache, TickSeconds)
             \/ \E r \in Reqs : reqs[r].pc = "set" /\ DoneGet(reqs'[r]) /\ reqs'[r].sets = 1
      ]_vars

\* two readers that both missed and queried, a POST between their queries: the
\* first has just written its older result, the second is about to write its own
C13_Witness ==
    \E r, q \in Reqs :
        /\ DoneGet(reqs[r]) /\ reqs[r].sets = 1 /\ reqs[r].overtaken
        /\ cache.present /\ cache.val = JSONstringify(reqs[r].data)
        /\ reqs[q].kind = "getSentiment" /\ reqs[q].pc = "set"
        /\ Len(reqs[q].tweets) > Len(reqs[r].data)

(* C14  From an unset key, with the service as the only writer: the key    *)
(* 'tweets' is absent or holds the text of a non-empty list; a request     *)
(* that writes the cache (is about to, or has) is a GET /sentiment that    *)
(* did not get a non-empty list from the cache, queried the store once and *)
(* received at least one record, and what it writes is not empty.          *)
C14_CacheAbsentOrNonEmpty ==
    /\ cache.present => (cache.val.kind = "array" /\ Len(cache.val.items) > 0)
    /\ \A r \in Reqs :
          (reqs[r].pc = "set" \/ reqs[r].sets > 0) =>
              /\ reqs[r].kind = "getSentiment"
              /\ ~Hit(reqs[r])
              /\ reqs[r].queries = 1
              /\ Len(reqs[r].resources) > 0
              /\ Len(reqs[r].tweets) = Len(reqs[r].resources)

\* a read that missed has just written as many tweets as the store returned
C14_Witness ==
    \E r \in Reqs :
        /\ DoneGet(reqs[r]) /\ reqs[r].sets = 1 /\ reqs[r].tweetsFromCache = None
        /\ cache.present /\ Len(cache.val.items) = Len(reqs[r].resources)
        /\ Len(reqs[r].resources) >= 1

---------------------------------------------------------------------------
(* C15  POST /sentiment upserts its batch one tweet at a time, in input     *)
(* order, with nothing atomic about it: a step of the request either       *)
(* upserts the tweet at its position and moves on by one, answering 200    *)
(* after the last one, or throws, leaving the store as it is and ending    *)
(* the request with 500 at that position (no retry, no later upsert); the  *)
(* store changes by one upsert of one request at a time; while the request *)
(* runs the tweets before its position are stored.                         *)
C15_UpsertsInOrderNoAtomicity ==
    [][/\ \A r \in Reqs :
             /\ ( /\ reqs[r].kind = "postSentiment" /\ reqs[r].pc = "upsert"
                  /\ reqs'[r] # reqs[r] ) =>
                    /\ reqs'[r].kind = "postSentiment" /\ reqs'[r].body = reqs[r].body
                    /\ \/ /\ reqs'[r].threw = ""
                          /\ store' = Upsert(store, UpsertDoc(reqs[r].body[reqs[r].idx]))
                          /\ reqs'[r].idx = reqs[r].idx + 1
                          /\ IF reqs[r].idx = Len(reqs[r].body)
                             THEN reqs'[r].pc = "done" /\ reqs'[r].status = 200
                             ELSE reqs'[r].pc = "upsert"
                       \/ /\ reqs'[r].threw = "upsert"
                          /\ store' = store
                          /\ reqs'[r].idx = reqs[r].idx
                          /\ reqs'[r].pc = "done" /\ reqs'[r].status = 500
             /\ (reqs'[r].kind = "postSentiment" /\ reqs'[r].pc = "upsert") =>
                    /\ reqs'[r].idx \in 1..Len(reqs'[r].body)
                    /\ reqs'[r].threw = ""
                    /\ \A i \in 1..(reqs'[r].idx - 1) :
                          \E j \in 1..Len(store') : store'[j] = UpsertDoc(reqs'[r].body[i])
             /\ (reqs[r].pc = "done" /\ reqs'[r].pc = "upsert") => reqs'[r].idx = 1
       /\ store' # store =>
             \E r \in Reqs :
                /\ reqs[r].kind = "postSentiment" /\ reqs[r].pc = "upsert"
                /\ reqs'[r].idx = reqs[r].idx + 1
                /\ \A q \in Reqs \ {r} : reqs'[q].idx = reqs[q].idx \/ reqs'[q].idx <= 1
      ]_vars

\* a GET /sentiment that read the store while a batch of two was half done: it
\* shows the first tweet of the batch and not the second
C15_Witness ==
    \E r, q \in Reqs :
        /\ DoneGet(reqs[r]) /\ reqs[r].status = 200 /\ reqs[r].queries = 1
        /\ reqs[q].kind = "postSentiment" /\ reqs[q].pc = "upsert" /\ reqs[q].idx = 2
        /\ reqs[q].body[1].id \in Ids(reqs[r].data)
        /\ reqs[q].body[2].id \notin Ids(reqs[r].data)
        /\ reqs[q].body[2].id \notin TweetIds(store)

(* C16  Store query failure on the read path: a GET /sentiment whose store  *)
(* query throws (it had no non-empty list from the cache) ends with 500    *)
(* and no data, has queried the store once and not again, has written the  *)
(* cache zero times, and the step leaves the key 'tweets' and the store as *)
(* they were.                                                              *)
C16_StoreQueryFailure ==
    [][\A r \in Reqs :
          (DoneGet(reqs'[r]) /\ reqs'[r].threw = "query" /\ reqs'[r] # reqs[r]) =>
              /\ reqs[r].kind = "getSentiment" /\ reqs[r].pc = "query"
              /\ ~Hit(reqs'[r])
              /\ reqs'[r].status = 500
              /\ reqs'[r].data = <<>>
              /\ reqs'[r].queries = 1
              /\ reqs'[r].sets = 0
              /\ cache' = cache
              /\ store' = store
      ]_vars

\* the query fails while the store holds tweets and the key is not set
C16_Witness ==
    \E r \in Reqs :
        /\ DoneGet(reqs[r]) /\ reqs[r].threw = "query" /\ reqs[r].status = 500
        /\ reqs[r].tweetsFromCache = None /\ ~cache.present
        /\ TweetIds(store) # {}

(* C17  Every document POST /sentiment writes has type "tweet", whatever   *)
(* `type` the posted tweet carried, and is otherwise the posted tweet: it  *)
(* is among the records the query of GET /sentiment selects and the query  *)
(* of GET /last-known-tweet ranks; no document with a posted id has        *)
(* another type.                                                           *)
C17_UpsertSetsTypeTweet ==
    [][\A r \in Reqs :
          /\ ( /\ reqs[r].kind = "postSentiment" /\ reqs[r].pc = "upsert"
               /\ reqs'[r] # reqs[r] /\ reqs'[r].threw = "" ) =>
                 LET t == reqs[r].body[reqs[r].idx]
                 IN  /\ \E j \in 1..Len(store') :
                           /\ store'[j].id = t.id
                           /\ store'[j].type = "tweet"
                           /\ store'[j].text = t.text
                           /\ store'[j].sentiment = t.sentiment
                     /\ \E i \in 1..Len(QueryAll(store')) : QueryAll(store')[i].id = t.id
                     /\ QueryLatest(store') # <<>>
                     /\ ~IdLess(QueryLatest(store')[1].id, t.id)
          /\ \A j \in 1..Len(store') :
                store'[j].id \in {p.id : p \in TweetPool} => store'[j].type = "tweet"
      ]_vars

\* a tweet posted with type "other" is stored with type "tweet"
C17_Witness ==
    \E r \in Reqs :
        /\ DonePost(reqs[r]) /\ reqs[r].status = 200
        /\ \E i \in 1..Len(reqs[r].body) :
              /\ reqs[r].body[i].type = "other"
              /\ \E j \in 1..Len(store) :
                    store[j].id = reqs[r].body[i].id /\ store[j].type = "tweet"

(* C18  Startup ordering: the port is bound and the cache is connected     *)
(* only after start has called server.listen (and, after it,               *)
(* client.connect); requests are handled only once the port is bound, and  *)
(* that does not wait for the connection: a GET /sentiment handled while   *)
(* the client is not connected gets no value from the cache (it waits at   *)
(* client.get or fails there).                                             *)
C18_StartupOrdering ==
    /\ connected => started
    /\ listening => started
    /\ \A r \in Reqs :
          /\ reqs[r].kind # "idle" => listening
          /\ ( /\ reqs[r].kind = "getSentiment" /\ ~connected ) =>
                 /\ reqs[r].pc \in {"get", "done"}
                 /\ reqs[r].pc = "done" => (reqs[r].threw = "get" /\ reqs[r].status = 500)

\* a GET /sentiment is at client.get while the client is not connected
C18_Witness ==
    /\ listening /\ ~connected
    /\ \E r \in Reqs : reqs[r].kind = "getSentiment" /\ reqs[r].pc = "get"

(* C19  As the claim states it: every tweet POST /sentiment accepts and    *)
(* stores can be served by a later GET /sentiment that reads the store;    *)
(* the mapping of the records never throws.                                *)
C19_NormalizationNeverThrows ==
    \A r \in Reqs :
        (DoneGet(reqs[r]) /\ Len(reqs[r].resources) > 0) => reqs[r].threw # "map"

=============================================================================
